---- MODULE Spec2Model ----
(***************************************************************************)
(* Session layer of the remote-API backend (CustomBackendService):         *)
(* the Token Store (CustomAuthService.accessToken / refreshTokenValue),    *)
(* the axios client with its request and response interceptors, and the    *)
(* auth methods verifyOTP / refreshToken / logout that post through that   *)
(* same intercepted client.                                                *)
(*                                                                         *)
(* JavaScript runs one handler at a time: a step of the model is the       *)
(* arrival of one HTTP response together with every continuation that      *)
(* runs until the next network call is issued (the next suspension point). *)
(* Each application call is a task; its stack holds the HTTP request that  *)
(* is on the wire (top) and, below it, the requests whose response         *)
(* interceptor is suspended in `await this.auth.refreshToken(...)` or      *)
(* `await this.auth.logout()`.                                             *)
(***************************************************************************)
EXTENDS Integers, Sequences, FiniteSets, TLC

\* ---- bounds -------------------------------------------------------------
NTasks == 2      \* application calls that may be in progress together
MaxTok == 2      \* token pairs the server issues in one run
MaxDepth == 3    \* nesting of intercepted requests explored per task
MaxCalls == 3    \* application calls started in one run
MaxSock == 2     \* sockets the realtime service opens in one run
MaxListen == 2   \* listeners registered directly on one socket
MaxSends == 1    \* acknowledged sends waiting for their acknowledgement
NChan == 1       \* channels the application subscribes to
MaxInst == 3     \* backend instances constructed in one run
MaxMsg == 3      \* chat messages created in one run
MaxFetch == 2    \* getMessages responses on their way together

Tasks == 1..NTasks
Null == 0
Tokens == 1..MaxTok
Ops == {"api", "verify", "refresh", "logout"}

NoErr == [origin |-> "none", code |-> "none"]
Err(op, code) == [origin |-> op, code |-> code]

VARIABLES
  accessToken,        \* CustomAuthService.accessToken (Null or a token)
  refreshTokenValue,  \* CustomAuthService.refreshTokenValue
  nextTok,            \* server: generation of the next pair it issues
  revoked,            \* server: refresh tokens it reports as revoked
  task,               \* the application calls in progress
  calls,              \* application calls started so far
  auth,               \* Redux auth slice (isAuthenticated and its token pair)
  stored,             \* AsyncStorage entry '@auth' (a token pair or none)
  rtKind,             \* which IRealtimeService the facade built
  socket,             \* WebSocketService.socket (Null or a socket)
  callbacks,          \* the service's callbacks Map: channel -> callback
  socks,              \* the socket.io sockets created so far
  sends,              \* pending acknowledged emits: the socket of each
  lastMsg,            \* the inbound event just dispatched, and who ran
  lastCall,           \* outcome of the realtime call just made
  subs,               \* per channel: history of its present subscription
  connCb,             \* the service's connectionCallback slot
  connNote,           \* the call of connectionCallback the last step made
  config,             \* the configuration object: backendType and firebase
  backendServiceInstance,  \* the facade's cached instance (Null or one)
  kinds,              \* the backend instances constructed so far, by kind
  held,               \* per module service: the backend its field captured
  facOut,             \* what the last facade or database call did
  messages,           \* chat slice: state.messages[conversationId]
  history,            \* server: the messages of the conversation
  wire,               \* 'message.new' events not delivered yet
  fetches,            \* getMessages responses not fulfilled yet
  added               \* messages that addMessage has appended

sessVars == <<accessToken, refreshTokenValue, nextTok, revoked, task, calls>>
appVars == <<auth, stored>>
rtVars == <<rtKind, socket, callbacks, socks, sends, lastMsg, lastCall, subs,
            connCb, connNote>>
facVars == <<config, backendServiceInstance, kinds, held, facOut>>
chatVars == <<messages, history, wire, fetches, added>>
svcVars == <<facVars, chatVars>>
vars == <<accessToken, refreshTokenValue, nextTok, revoked, task, calls,
          auth, stored,
          rtKind, socket, callbacks, socks, sends, lastMsg, lastCall, subs,
          connCb, connNote,
          config, backendServiceInstance, kinds, held, facOut,
          messages, history, wire, fetches, added>>

\* ---- the client ---------------------------------------------------------

\* request interceptor: attach the stored access token when there is one
RequestInterceptor(hdr, at) == IF at # Null THEN at ELSE hdr

\* a request handed to the axios client; the header is attached on the way out.
\* hdr is the Authorization header of the request on the wire: it is kept only
\* while the request is in flight (a re-issue sets it again before sending).
NewRequest(op, rtArg, at) ==
  [op |-> op, pc |-> "inflight", retry |-> FALSE,
   hdr |-> RequestInterceptor(Null, at), rt |-> rtArg, held |-> NoErr,
   nRef |-> 0, nRe |-> 0]

ShouldRefreshNoFlag(req, code) == code = "401" /\ req.nRef < 2
\* response interceptor: `error.response?.status === 401 && !originalRequest._retry`
ShouldRefresh(req, code) == code = "401" /\ ~req.retry

HasRefreshTokenAlways(rt) == TRUE
\* response interceptor: `if (refreshToken)`
HasRefreshToken(rt) == rt # Null

VerifyOTPStoreAccessOnly(cur, g) == <<g, cur[2]>>
\* verifyOTP after its POST resolved: both fields assigned from response.data
VerifyOTPStore(cur, g) == <<g, g>>

\* refreshToken after its POST resolved
RefreshTokenStore(cur, g) == <<g, g>>

LogoutStoreOnSuccess(cur, ok) == IF ok THEN <<Null, Null>> ELSE cur
\* logout: the finally block runs whether the POST resolved or rejected
LogoutStore(cur, ok) == <<Null, Null>>

\* what the method that owns the request does to the Token Store once the
\* request's promise has settled (ok: resolved, g: the pair in the response)
MethodStore(op, ok, g, cur) ==
  CASE op = "verify"  -> IF ok THEN VerifyOTPStore(cur, g) ELSE cur
    [] op = "refresh" -> IF ok THEN RefreshTokenStore(cur, g) ELSE cur
    [] op = "logout"  -> LogoutStore(cur, ok)
    [] OTHER          -> cur

IdleTask ==
  [kind |-> "none", status |-> "idle", stack |-> <<>>, err |-> NoErr,
   nRefresh |-> 0, nReissue |-> 0, changed |-> FALSE, refFailed |-> FALSE,
   reissuedOK |-> FALSE, noRT |-> FALSE, second401 |-> FALSE,
   sawRevoked |-> FALSE, conc |-> {}, clearAtSettle |-> FALSE]

Top(stk) == stk[Len(stk)]
SetTop(stk, f) == [stk EXCEPT ![Len(stk)] = f]
Pop(stk) == SubSeq(stk, 1, Len(stk) - 1)

\* The promise of the top request settled (after the response interceptor):
\* run the owning method's continuation, then resume whoever awaited it.
\* c = [tk: the task, at, rtv: the Token Store]
RECURSIVE Finish(_, _, _, _)
Finish(c, ok, e, g) ==
  LET stk  == c.tk.stack
      top  == Top(stk)
      cur  == <<c.at, c.rtv>>
      st   == MethodStore(top.op, ok, g, cur)
      rest == Pop(stk)
      c1   == [c EXCEPT !.at = st[1], !.rtv = st[2],
                        !.tk.stack = rest,
                        !.tk.changed = @ \/ st # cur]
  IN IF rest = <<>>
     THEN [c1 EXCEPT !.tk.status = IF ok THEN "resolved" ELSE "rejected",
                     !.tk.err = IF ok THEN NoErr ELSE e,
                     !.tk.clearAtSettle = (c1.at = Null /\ c1.rtv = Null)]
     ELSE LET par == Top(rest) IN
       IF par.pc = "awaitRefresh"
       THEN IF ok
            THEN \* set the header from the returned pair, re-issue through the client
                 [c1 EXCEPT !.tk.stack = SetTop(rest,
                               [par EXCEPT !.pc = "inflight",
                                           !.hdr = RequestInterceptor(g, c1.at),
                                           !.nRe = @ + 1]),
                            !.tk.nReissue = @ + 1,
                            !.tk.reissuedOK = @ \/ Len(rest) = 1]
            ELSE \* catch (refreshError): await this.auth.logout()
                 [c1 EXCEPT !.tk.stack = Append(SetTop(rest,
                               [par EXCEPT !.pc = "awaitLogout", !.held = e, !.hdr = Null]),
                               NewRequest("logout", Null, c1.at)),
                            !.tk.refFailed = @ \/ Len(rest) = 1]
       ELSE \* awaitLogout: reject(refreshError), or logout's own error if it threw
            Finish(c1, FALSE, IF ok THEN par.held ELSE e, Null)

\* The response interceptor's error handler for the top request.
OnError(c, code) ==
  LET stk == c.tk.stack
      top == Top(stk)
      e   == Err(top.op, code)
      root == Len(stk) = 1
  IN IF ShouldRefresh(top, code)
     THEN LET c0 == [c EXCEPT !.tk.stack = SetTop(stk, [top EXCEPT !.retry = TRUE]),
                              !.tk.noRT = @ \/ (root /\ c.rtv = Null)]
          IN IF HasRefreshToken(c.rtv)
             THEN [c0 EXCEPT !.tk.stack = Append(SetTop(stk,
                                [top EXCEPT !.retry = TRUE, !.pc = "awaitRefresh",
                                            !.nRef = @ + 1, !.hdr = Null]),
                                NewRequest("refresh", c.rtv, c.at)),
                             !.tk.nRefresh = @ + 1]
             ELSE Finish(c0, FALSE, e, Null)
     ELSE Finish([c EXCEPT !.tk.second401 = @ \/ (root /\ code = "401" /\ top.retry)],
                 FALSE, e, Null)

OnResponse(c, code, g) ==
  IF code = "ok" THEN Finish(c, TRUE, NoErr, g) ELSE OnError(c, code)

\* ---- the server ---------------------------------------------------------

\* a revoked (or missing) refresh token is never exchanged
ServerAllows(req, code) ==
  (req.op = "refresh" /\ code = "ok") => (req.rt # Null /\ req.rt \notin revoked)

\* ---- the application and the realtime channel: state --------------------

\* the auth slice before anyone has signed in
AuthInitial == [isAuthenticated |-> FALSE, accessToken |-> Null,
                refreshToken |-> Null]

Channels == 1..NChan    \* event names the application subscribes to
Cbs == {"A", "B"}       \* callbacks the application passes
NoCb == "none"
Socks == 1..MaxSock

\* new Map(): no channel has a callback
NoCallbacks == [c \in Channels |-> NoCb]

\* a socket: its connection state, the auth payload captured by io(), the
\* listeners added with socket.on(channel, cb), and the promise connect()
\* returned for it
NoListeners == [p \in Channels \X Cbs |-> 0]
NoSock == [st |-> "none", auth |-> Null, lis |-> NoListeners,
           promise |-> "none"]

NoMsg == [chan |-> Null, sock |-> Null, ran |-> [cb \in Cbs |-> 0]]

\* what is remembered about a channel's present subscription: the callbacks
\* a later subscribe replaced, whether it was registered with no connection,
\* and the callback it had when disconnect() was called
FreshSub == [replaced |-> {}, offline |-> FALSE, preDisc |-> NoCb]

Pair(a, r) == [accessToken |-> a, refreshToken |-> r]

\* AsyncStorage has no '@auth' entry
NoPair == Pair(Null, Null)

\* connectionCallback?.(up) with callback cb in the slot; nothing is called
\* when the slot is empty
Note(cb, up) == [cb |-> cb, up |-> up /\ cb # NoCb]
NoNote == Note(NoCb, FALSE)

AppInit == auth = AuthInitial /\ stored = NoPair

RtInit ==
  /\ socket = Null
  /\ callbacks = NoCallbacks
  /\ socks = [s \in Socks |-> NoSock]
  /\ sends = <<>>
  /\ lastMsg = NoMsg
  /\ lastCall = "none"
  /\ subs = [c \in Channels |-> FreshSub]
  /\ connCb = NoCb
  /\ connNote = NoNote

\* ---- the facade and the chat slice: state -------------------------------

Insts == 1..MaxInst
Services == {"authService", "chatService"}   \* module services of the app

\* config as the configuration module builds it from the environment:
\* BACKEND_TYPE (custom when unset) and the FIREBASE_* values, all given
\* ("set") or all missing ("unset"); config.firebase is an object of these
\* values when the kind is firebase, and undefined ("absent") otherwise
ConfigFromEnv(type, params) ==
  [backendType |-> type,
   firebase |-> IF type = "firebase" THEN params ELSE "absent"]

\* nothing to report: the last step was no facade or database call
NoOut == [op |-> "none", inst |-> Null, res |-> "none", arg |-> "none"]

FacInit ==
  /\ backendServiceInstance = Null
  /\ kinds = <<>>
  /\ held = [v \in Services |-> Null]
  /\ facOut = NoOut

ChatInit ==
  /\ messages = <<>>
  /\ history = <<>>
  /\ wire = {}
  /\ fetches = <<>>
  /\ added = {}

SvcInit == FacInit /\ ChatInit /\ config = ConfigFromEnv("custom", "unset")

\* ---- actions ------------------------------------------------------------

\* the caller's continuation runs in the same turn as the settlement
NoneSettled == \A u \in Tasks : task[u].status \in {"idle", "running"}

\* refresh tokens carried by a refresh request that is on the wire
Presented ==
  {k \in Tokens : \E u \in Tasks : \E i \in 1..Len(task[u].stack) :
       /\ task[u].stack[i].op = "refresh" /\ task[u].stack[i].pc = "inflight"
       /\ task[u].stack[i].rt = k}

SessInit ==
  /\ accessToken = Null
  /\ refreshTokenValue = Null
  /\ nextTok = 1
  /\ revoked = {}
  /\ task = [t \in Tasks |-> IdleTask]
  /\ calls = 0

Init == SessInit /\ AppInit /\ RtInit /\ SvcInit /\ rtKind = "custom"

\* application code starts a call: a resource request, verifyOTP, logout,
\* or refreshToken(rt) with a refresh token it was given earlier
Start(t) ==
  /\ task[t].status = "idle"
  /\ NoneSettled
  /\ calls < MaxCalls
  /\ calls' = calls + 1
  /\ \E op \in Ops :
       \E rtArg \in (IF op = "refresh" THEN 1..(nextTok - 1) ELSE {Null}) :
         task' = [task EXCEPT ![t] =
                    [IdleTask EXCEPT !.kind = op, !.status = "running",
                                     !.stack = <<NewRequest(op, rtArg, accessToken)>>]]
  /\ UNCHANGED <<accessToken, refreshTokenValue, nextTok, revoked>>

\* the server answers the request task t has on the wire
Respond(t) ==
  /\ task[t].status = "running"
  /\ NoneSettled
  /\ LET stk == task[t].stack
         top == Top(stk)
     IN /\ top.pc = "inflight"
        /\ \E code \in {"ok", "401", "err"} :
             LET issues == code = "ok" /\ top.op \in {"verify", "refresh"}
                 g == IF issues THEN nextTok ELSE Null
                 pushes == ShouldRefresh(top, code) /\ HasRefreshToken(refreshTokenValue)
                 peers == {u \in Tasks \ {t} :
                             /\ task[u].status = "running"
                             /\ task[u].stack[1].pc = "awaitRefresh"}
                 c0 == [tk |-> [task[t] EXCEPT
                                  !.sawRevoked = @ \/ (top.op = "refresh" /\ Len(stk) = 1
                                                       /\ top.rt \in revoked),
                                  !.conc = IF pushes /\ Len(stk) = 1 THEN peers ELSE @],
                        at |-> accessToken, rtv |-> refreshTokenValue]
                 c == OnResponse(c0, code, g)
             IN /\ ServerAllows(top, code)
                /\ issues => nextTok <= MaxTok
                /\ pushes => Len(stk) < MaxDepth
                /\ nextTok' = IF issues THEN nextTok + 1 ELSE nextTok
                /\ UNCHANGED revoked
                /\ task' = [task EXCEPT ![t] = c.tk]
                /\ accessToken' = c.at
                /\ refreshTokenValue' = c.rtv
                /\ UNCHANGED calls

\* the caller has seen its result; the slot is free for another call
Collect(t) ==
  /\ task[t].status \in {"resolved", "rejected"}
  /\ task' = [u \in Tasks |-> IF u = t THEN IdleTask
                              ELSE [task[u] EXCEPT !.conc = @ \ {t}]]
  /\ UNCHANGED <<accessToken, refreshTokenValue, nextTok, revoked, calls>>

\* the server revokes a refresh token it issued: expiry, rotation after an
\* exchange, revocation after a logout
Revoke ==
  /\ NoneSettled
  /\ \E k \in Presented : k \notin revoked /\ revoked' = revoked \cup {k}
  /\ UNCHANGED <<accessToken, refreshTokenValue, nextTok, task, calls>>

\* the session layer alone: the slice and the realtime channel stand still
Next ==
  \/ \E t \in Tasks : Start(t) /\ UNCHANGED <<appVars, svcVars, rtVars>>
  \/ \E t \in Tasks : Respond(t) /\ UNCHANGED <<appVars, svcVars, rtVars>>
  \/ \E t \in Tasks : Collect(t) /\ UNCHANGED <<appVars, svcVars, rtVars>>
  \/ Revoke /\ UNCHANGED <<appVars, svcVars, rtVars>>

Spec == Init /\ [][Next]_vars

TypeOK ==
  /\ accessToken \in 0..MaxTok
  /\ refreshTokenValue \in 0..MaxTok
  /\ nextTok \in 1..(MaxTok + 1)
  /\ revoked \subseteq Tokens
  /\ \A t \in Tasks : Len(task[t].stack) <= MaxDepth

\* ---- properties ---------------------------------------------------------

Settled(t) == task[t].status \in {"resolved", "rejected"}
Running(t) == task[t].status = "running"
Root(t) == task[t].stack[1]

\* requests whose 401 handler is waiting for a refresh at the same time
Batch == {t \in Tasks : Running(t) /\ Len(task[t].stack) = 2
                        /\ Root(t).pc = "awaitRefresh"}
\* refresh POSTs on the wire on behalf of the batch
RefreshCallsFor(B) ==
  Cardinality({t \in B : Top(task[t].stack).op = "refresh"
                         /\ Top(task[t].stack).pc = "inflight"})

\* C1: when two or more requests are waiting on a refresh after their 401s,
\* exactly one refresh call is on the wire for all of them, and the requests
\* of one batch are re-issued with the same (refreshed) access token.
C1_OneRefreshPerBatch ==
  /\ Cardinality(Batch) >= 2 => RefreshCallsFor(Batch) = 1
  /\ \A t \in Tasks : \A u \in task[t].conc :
       (/\ Running(t) /\ Running(u)
        /\ task[t].reissuedOK /\ task[u].reissuedOK
        /\ Len(task[t].stack) = 1 /\ Len(task[u].stack) = 1)
       => Root(t).hdr = Root(u).hdr

\* C2: requests that were handling their 401s at the same time agree: never
\* is one of them re-issued after a successful refresh while the refresh made
\* for the other one failed (and forced a logout).
C2_OutcomesAgree ==
  \A t \in Tasks : \A u \in task[t].conc :
    /\ ~(task[t].reissuedOK /\ task[u].refFailed)
    /\ ~(task[u].reissuedOK /\ task[t].refFailed)

\* C3: a request starts at most one refresh and is re-issued at most once;
\* a 401 answered to the re-issued request is what the caller receives.
C3_ReissuedOnce ==
  \A t \in Tasks :
    /\ \A i \in 1..Len(task[t].stack) :
         task[t].stack[i].nRef <= 1 /\ task[t].stack[i].nRe <= 1
    /\ task[t].second401 =>
         task[t].status = "rejected" /\ task[t].err = Err(task[t].kind, "401")

C3_Witness ==
  \E t \in Tasks : task[t].second401 /\ task[t].reissuedOK
                   /\ task[t].status = "rejected"

\* C4: handling one application request costs at most one refresh call and
\* one re-issue, whatever the server answers.
C4_BoundedCalls ==
  \A t \in Tasks : task[t].nRefresh <= 1 /\ task[t].nReissue <= 1

\* C5: when the refresh started for a request's 401 fails, the caller is
\* rejected with the refresh's error and the Token Store is empty at that
\* moment.
C5_RefreshFailureExpiresSession ==
  \A t \in Tasks :
    (task[t].refFailed /\ Settled(t)) =>
      /\ task[t].status = "rejected"
      /\ task[t].err.origin = "refresh"
      /\ task[t].clearAtSettle

\* C6: a 401 met while the Token Store holds no refresh token is rejected to
\* the caller at once, and no refresh call is made.
C6_NoRefreshWithoutToken ==
  \A t \in Tasks :
    task[t].noRT =>
      /\ task[t].status = "rejected"
      /\ task[t].err = Err(task[t].kind, "401")
      /\ task[t].nRefresh = 0

C6_Witness ==
  \E t \in Tasks : task[t].noRT /\ task[t].kind = "api"
                   /\ task[t].status = "rejected"

\* C7: refreshToken(rt) with a token the server reports as revoked fails and
\* leaves the Token Store empty once it has settled.
C7_RevokedRefreshClearsStore ==
  \A t \in Tasks :
    (task[t].kind = "refresh" /\ task[t].sawRevoked /\ Settled(t)) =>
      task[t].status = "rejected" /\ task[t].clearAtSettle

\* C8: once logout() has settled, resolved or rejected, the Token Store is
\* empty; the same holds for the logout forced by a failed refresh.
C8_LogoutClearsStore ==
  \A t \in Tasks :
    (Settled(t) /\ (task[t].kind = "logout" \/ task[t].refFailed)) =>
      task[t].clearAtSettle

C8_Witness ==
  \E t \in Tasks : /\ task[t].kind = "logout" /\ task[t].status = "rejected"
                   /\ task[t].changed /\ task[t].clearAtSettle

\* C9: at every suspension point the access token is absent exactly when the
\* refresh token is absent, and both come from the same response.
C9_PairWrittenWhole ==
  /\ (accessToken = Null) <=> (refreshTokenValue = Null)
  /\ accessToken = refreshTokenValue

C9_Witness ==
  /\ accessToken # Null
  /\ \E t \in Tasks : task[t].reissuedOK /\ Running(t)
  /\ \E t \in Tasks : task[t].kind = "logout" /\ Running(t)

\* C10: a verifyOTP call that ends rejected has not changed the Token Store.
C10_RejectedVerifyLeavesStore ==
  \A t \in Tasks :
    (task[t].kind = "verify" /\ task[t].status = "rejected") => ~task[t].changed

\* ---- the realtime channel -----------------------------------------------

\* the channel as callers see it: no socket, or a socket that is down
\* because its handshake failed or its transport dropped
Disconnected == socket = Null \/ socks[socket].st = "down"

\* the first socket not created yet
FreeSock == {s \in Socks : socks[s].st = "none"}
NewSock == CHOOSE s \in FreeSock : \A u \in FreeSock : s <= u

\* listeners a socket holds, over all channels and callbacks
RECURSIVE SumOver(_, _)
SumOver(lis, P) ==
  IF P = {} THEN 0
  ELSE LET p == CHOOSE q \in P : TRUE IN lis[p] + SumOver(lis, P \ {p})
NListeners(lis) == SumOver(lis, Channels \X Cbs)

\* socket.on(channel, cb): one more listener, whatever is there already
On(lis, c, cb) == [lis EXCEPT ![<<c, cb>>] = @ + 1]

\* socket.off(channel): every listener of the channel is removed
Off(lis, c) == [p \in Channels \X Cbs |-> IF p[1] = c THEN 0 ELSE lis[p]]

OnAnyRunsNothing(cbs, c, cb) == 0
\* the onAny handler: callbacks.get(event), called if present
OnAnyRuns(cbs, c, cb) == IF cbs[c] = cb THEN 1 ELSE 0

\* how often each callback runs when event c arrives on socket s: once from
\* the onAny handler, once per listener added with socket.on
Runs(s, c) ==
  [cb \in Cbs |-> OnAnyRuns(callbacks, c, cb) + socks[s].lis[<<c, cb>>]]

RtState == [kind |-> rtKind, socket |-> socket, callbacks |-> callbacks,
            socks |-> socks, threw |-> FALSE]

DisconnectOpKeepSubs(r) ==
  IF r.kind = "firebase" THEN r
  ELSE IF r.socket # Null
       THEN [r EXCEPT !.socks[r.socket].st = "closed", !.socket = Null]
       ELSE r

DisconnectOpNoGuard(r) ==
  IF r.kind = "firebase" THEN [r EXCEPT !.callbacks = NoCallbacks]
  ELSE IF r.socket # Null
       THEN [r EXCEPT !.socks[r.socket].st = "closed", !.socket = Null,
                      !.callbacks = NoCallbacks]
       ELSE [r EXCEPT !.threw = TRUE]

\* disconnect(): WebSocketService closes and forgets the socket and clears
\* the Map, only if it has a socket; FirebaseRealtimeService clears the Map.
\* Closing a connected socket makes it emit 'disconnect' before it returns.
DisconnectOp(r) ==
  IF r.kind = "firebase" THEN [r EXCEPT !.callbacks = NoCallbacks]
  ELSE IF r.socket # Null
       THEN [r EXCEPT !.socks[r.socket].st = "closed", !.socket = Null,
                      !.callbacks = NoCallbacks]
       ELSE r

\* onConnectionChange(callback): the slot is overwritten
RtOnConnectionChange(cb) ==
  /\ connCb' = cb
  /\ connNote' = NoNote
  /\ lastMsg' = NoMsg
  /\ lastCall' = "none"
  /\ UNCHANGED <<rtKind, socket, callbacks, socks, sends, subs, sessVars,
                 appVars, svcVars>>

\* connect(token): a new socket with the token as its auth payload replaces
\* this.socket; the Firebase service throws
RtConnect ==
  /\ lastMsg' = NoMsg
  /\ connNote' = NoNote
  /\ UNCHANGED connCb
  /\ IF rtKind = "firebase"
     THEN /\ lastCall' = "threw"
          /\ UNCHANGED <<socket, socks>>
     ELSE /\ accessToken # Null
          /\ FreeSock # {}
          /\ socket' = NewSock
          /\ socks' = [socks EXCEPT ![NewSock] =
                         [st |-> "connecting", auth |-> accessToken,
                          lis |-> NoListeners, promise |-> "pending"]]
          /\ lastCall' = "none"
  /\ UNCHANGED <<rtKind, callbacks, sends, subs, sessVars, appVars, svcVars>>

RtDisconnect ==
  LET d == DisconnectOp(RtState) IN
  /\ connNote' = IF rtKind = "custom" /\ socket # Null
                     /\ socks[socket].st = "connected"
                  THEN Note(connCb, FALSE) ELSE NoNote
  /\ UNCHANGED connCb
  /\ socket' = d.socket
  /\ callbacks' = d.callbacks
  /\ socks' = d.socks
  /\ lastCall' = IF d.threw THEN "threw"
                 ELSE IF lastCall \in {"disconnect", "disconnectAgain"}
                      THEN "disconnectAgain" ELSE "disconnect"
  /\ subs' = [c \in Channels |->
                IF callbacks[c] # NoCb /\ (rtKind = "firebase" \/ socket # Null)
                THEN [FreshSub EXCEPT !.preDisc = callbacks[c]]
                ELSE subs[c]]
  /\ lastMsg' = NoMsg
  /\ UNCHANGED <<rtKind, sends, sessVars, appVars, svcVars>>

\* subscribe(channel, callback): callbacks.set, and socket.on if a socket
\* exists
RtSubscribe(c, cb) ==
  /\ callbacks' = [callbacks EXCEPT ![c] = cb]
  /\ IF rtKind = "custom" /\ socket # Null
     THEN /\ NListeners(socks[socket].lis) < MaxListen
          /\ socks' = [socks EXCEPT ![socket].lis = On(@, c, cb)]
     ELSE UNCHANGED socks
  /\ subs' = [subs EXCEPT ![c] =
                [replaced |-> (IF callbacks[c] = NoCb THEN @.replaced
                               ELSE @.replaced \cup {callbacks[c]}) \ {cb},
                 offline |-> Disconnected,
                 preDisc |-> NoCb]]
  /\ lastMsg' = NoMsg
  /\ connNote' = NoNote
  /\ UNCHANGED connCb
  /\ lastCall' = "none"
  /\ UNCHANGED <<rtKind, socket, sends, sessVars, appVars, svcVars>>

\* unsubscribe(channel): callbacks.delete, and socket.off if a socket exists
RtUnsubscribe(c) ==
  /\ callbacks[c] # NoCb
  /\ callbacks' = [callbacks EXCEPT ![c] = NoCb]
  /\ IF rtKind = "custom" /\ socket # Null
     THEN socks' = [socks EXCEPT ![socket].lis = Off(@, c)]
     ELSE UNCHANGED socks
  /\ subs' = [subs EXCEPT ![c] = FreshSub]
  /\ lastMsg' = NoMsg
  /\ connNote' = NoNote
  /\ UNCHANGED connCb
  /\ lastCall' = "none"
  /\ UNCHANGED <<rtKind, socket, sends, sessVars, appVars, svcVars>>

\* send(channel, data): throws without a socket, otherwise emits with an
\* acknowledgement callback that settles the returned promise
RtSend ==
  /\ lastMsg' = NoMsg
  /\ connNote' = NoNote
  /\ UNCHANGED connCb
  /\ IF rtKind = "firebase" \/ socket = Null
     THEN /\ lastCall' = "threw"
          /\ UNCHANGED sends
     ELSE /\ Len(sends) < MaxSends
          /\ sends' = Append(sends, socket)
          /\ lastCall' = "none"
  /\ UNCHANGED <<rtKind, socket, callbacks, socks, subs, sessVars, appVars, svcVars>>

\* socket event 'connect', after the first handshake or a re-connection the
\* socket made by itself with the auth payload it was created with
EvConnect(s) ==
  /\ socks[s].st \in {"connecting", "down"}
  /\ socks' = [socks EXCEPT ![s].st = "connected",
                 ![s].promise = IF @ = "pending" THEN "resolved" ELSE @]
  /\ lastMsg' = NoMsg
  /\ connNote' = Note(connCb, TRUE)
  /\ UNCHANGED connCb
  /\ lastCall' = "none"
  /\ UNCHANGED <<rtKind, socket, callbacks, sends, subs, sessVars, appVars, svcVars>>

\* socket event 'disconnect': the transport dropped
EvDisconnect(s) ==
  /\ socks[s].st = "connected"
  /\ socks' = [socks EXCEPT ![s].st = "down"]
  /\ lastMsg' = NoMsg
  /\ connNote' = Note(connCb, FALSE)
  /\ UNCHANGED connCb
  /\ lastCall' = "none"
  /\ UNCHANGED <<rtKind, socket, callbacks, sends, subs, sessVars, appVars, svcVars>>

\* socket event 'error' while the handshake is in progress
EvError(s) ==
  /\ socks[s].st = "connecting"
  /\ socks' = [socks EXCEPT ![s].st = "down",
                 ![s].promise = IF @ = "pending" THEN "rejected" ELSE @]
  /\ lastMsg' = NoMsg
  /\ connNote' = NoNote
  /\ UNCHANGED connCb
  /\ lastCall' = "none"
  /\ UNCHANGED <<rtKind, socket, callbacks, sends, subs, sessVars, appVars, svcVars>>

\* an event arrives on a connected socket
EvMessage(s, c) ==
  /\ socks[s].st = "connected"
  /\ lastMsg' = [chan |-> c, sock |-> s, ran |-> Runs(s, c)]
  /\ connNote' = NoNote
  /\ UNCHANGED connCb
  /\ lastCall' = "none"
  /\ UNCHANGED <<rtKind, socket, callbacks, socks, sends, subs, sessVars,
                 appVars, svcVars>>

\* the server acknowledges an emit: the acknowledgement callback resolves
\* or rejects the promise, which is pending no longer
EvAck(i) ==
  /\ socks[sends[i]].st = "connected"
  /\ sends' = [j \in 1..(Len(sends) - 1) |->
                IF j < i THEN sends[j] ELSE sends[j + 1]]
  /\ lastMsg' = NoMsg
  /\ connNote' = NoNote
  /\ UNCHANGED connCb
  /\ lastCall' = "none"
  /\ UNCHANGED <<rtKind, socket, callbacks, socks, subs, sessVars, appVars, svcVars>>

\* a verifyOTP or refreshToken call completes while the channel is in use
RtStoreChange(op) ==
  /\ op = "refresh" => refreshTokenValue # Null
  /\ nextTok <= MaxTok
  /\ LET st == MethodStore(op, TRUE, nextTok,
                           <<accessToken, refreshTokenValue>>) IN
       /\ accessToken' = st[1]
       /\ refreshTokenValue' = st[2]
  /\ nextTok' = nextTok + 1
  /\ lastMsg' = NoMsg
  /\ connNote' = NoNote
  /\ UNCHANGED connCb
  /\ lastCall' = "none"
  /\ UNCHANGED <<revoked, task, calls, appVars, svcVars, rtKind, socket, callbacks,
                 socks, sends, subs>>

InitRT ==
  /\ SessInit /\ AppInit /\ RtInit /\ SvcInit
  /\ rtKind \in {"custom", "firebase"}

NextRT ==
  \/ RtConnect
  \/ RtDisconnect
  \/ \E c \in Channels, cb \in Cbs : RtSubscribe(c, cb)
  \/ \E c \in Channels : RtUnsubscribe(c)
  \/ RtSend
  \/ \E s \in Socks : EvConnect(s)
  \/ \E s \in Socks : EvDisconnect(s)
  \/ \E s \in Socks : EvError(s)
  \/ \E s \in Socks, c \in Channels : EvMessage(s, c)
  \/ \E i \in 1..Len(sends) : EvAck(i)
  \/ \E op \in {"verify", "refresh"} : RtStoreChange(op)

SpecRT == InitRT /\ [][NextRT]_vars

TypeOKRT ==
  /\ rtKind \in {"custom", "firebase"}
  /\ socket \in {Null} \cup Socks
  /\ callbacks \in [Channels -> Cbs \cup {NoCb}]
  /\ \A s \in Socks : NListeners(socks[s].lis) <= MaxListen
  /\ Len(sends) <= MaxSends

\* ---- properties of the realtime channel ---------------------------------

\* an event has just been dispatched on channel c
Arrived(c) == lastMsg.chan = c

\* C13: every connection the realtime channel starts, by connect() or by
\* the socket re-connecting after it went down, carries the access token
\* that the Token Store holds at that moment (the HTTP half of the claim is
\* RequestInterceptor, which reads the store when the request is sent).
C13_ConnectionCarriesStoredToken ==
  [][\A s \in Socks :
       (socks[s].st \in {"none", "down"}
          /\ socks'[s].st \in {"connecting", "connected"})
         => socks'[s].auth = accessToken]_vars

\* C14: when a channel was subscribed with A and then with B, a message on
\* the channel runs B and does not run A.
C14_LastSubscribeWins ==
  \A c \in Channels :
    Arrived(c) =>
      /\ \A a \in subs[c].replaced : lastMsg.ran[a] = 0
      /\ callbacks[c] # NoCb => lastMsg.ran[callbacks[c]] >= 1

\* a message arrives on the present connection for a channel that was
\* subscribed when disconnect() was called and has not been touched since
AfterReconnect(c) ==
  Arrived(c) /\ lastMsg.sock = socket /\ subs[c].preDisc # NoCb

\* C15 as stated: after disconnect() and a following successful connect(),
\* a message on a channel subscribed before the disconnect still runs the
\* callback it had.
C15_ReplayedAfterReconnect ==
  \A c \in Channels :
    AfterReconnect(c) => lastMsg.ran[subs[c].preDisc] >= 1

\* C15 amended: disconnect() on a channel that has a socket discards the
\* subscriptions; after the following successful connect() a message on a
\* channel subscribed before the disconnect runs no callback, until the
\* caller subscribes again.
C15_DiscardedByDisconnect ==
  \A c \in Channels :
    AfterReconnect(c) => \A cb \in Cbs : lastMsg.ran[cb] = 0

C15_Witness == \E c \in Channels : AfterReconnect(c)

C17_NoEmitWhileDisconnected ==
  [][Len(sends') > Len(sends) => ~Disconnected]_vars

\* C18: a send that waits for its acknowledgement can still be settled:
\* the socket it was emitted on has not been closed (there is no timer that
\* would settle it otherwise).
C18_PendingSendCanSettle ==
  \A i \in 1..Len(sends) : socks[sends[i]].st # "closed"

\* C19: a connect() whose promise is pending can still be settled: its
\* socket has not been closed (there is no timer that would settle it
\* otherwise).
C19_PendingConnectCanSettle ==
  \A s \in Socks : socks[s].promise = "pending" => socks[s].st # "closed"

SignedIn(p) == [isAuthenticated |-> TRUE, accessToken |-> p.accessToken,
                refreshToken |-> p.refreshToken]

\* the thunk that made call t continues once authService has settled:
\* verifyOTP persists the pair it was given and is fulfilled with it (the
\* pair is the one verifyOTP has just put in the Token Store); logout
\* removes '@auth' and is fulfilled; a rejected thunk leaves both alone
AppCollect(t) ==
  /\ Collect(t)
  /\ IF task[t].status = "resolved" /\ task[t].kind = "verify"
     THEN /\ stored' = Pair(accessToken, refreshTokenValue)
          /\ auth' = SignedIn(Pair(accessToken, refreshTokenValue))
     ELSE IF task[t].status = "resolved" /\ task[t].kind = "logout"
     THEN /\ stored' = NoPair
          /\ auth' = AuthInitial
     ELSE UNCHANGED <<auth, stored>>
  /\ UNCHANGED <<rtVars, svcVars>>

\* loadAuthFromStorage.fulfilled: `if (action.payload)`
LoadedSlice(cur, data) == IF data # NoPair THEN SignedIn(data) ELSE cur

\* the application is started again: a new process has a new backend
\* service and a new store, '@auth' is what the last process left, and App
\* dispatches loadAuthFromStorage, whose reducer copies a saved pair into
\* the slice
AppLaunch ==
  /\ NoneSettled
  /\ accessToken' = Null
  /\ refreshTokenValue' = Null
  /\ task' = [t \in Tasks |-> IdleTask]
  /\ auth' = LoadedSlice(AuthInitial, stored)
  /\ UNCHANGED <<nextTok, revoked, calls, stored, rtVars, svcVars>>

NextApp ==
  \/ \E t \in Tasks : Start(t) /\ UNCHANGED <<appVars, svcVars, rtVars>>
  \/ \E t \in Tasks : Respond(t) /\ UNCHANGED <<appVars, svcVars, rtVars>>
  \/ \E t \in Tasks : AppCollect(t)
  \/ Revoke /\ UNCHANGED <<appVars, svcVars, rtVars>>
  \/ AppLaunch

SpecApp == Init /\ [][NextApp]_vars

\* ---- properties of the application --------------------------------------

\* C11: once a refresh has failed and the forced logout has emptied the
\* Token Store, the auth slice no longer reports an authenticated session.
C11_SliceFollowsForcedLogout ==
  \A t \in Tasks :
    (Settled(t) /\ task[t].refFailed /\ accessToken = Null)
      => ~auth.isAuthenticated

\* C12: when the application starts and loadAuthFromStorage finds a saved
\* pair, the Token Store holds that pair afterwards.
C12_LoadRestoresTokenStore ==
  [][(AppLaunch /\ stored # NoPair)
       => /\ accessToken' = stored.accessToken
          /\ refreshTokenValue' = stored.refreshToken]_vars

\* only resource requests are in progress: no sign-in, sign-out or direct
\* refresh call of the application is changing the session
OnlyResourceCalls == \A u \in Tasks : task[u].kind \in {"none", "api"}

\* C28: once the interceptor's refresh has succeeded for a resource request
\* and the Token Store holds the rotated pair, the auth slice and the
\* persisted '@auth' entry hold that same pair.
C28_SessionFollowsRotation ==
  \A t \in Tasks :
    (/\ task[t].kind = "api" /\ task[t].reissuedOK
     /\ OnlyResourceCalls
     /\ auth.isAuthenticated /\ accessToken # Null)
      => /\ Pair(auth.accessToken, auth.refreshToken)
              = Pair(accessToken, refreshTokenValue)
         /\ stored = Pair(accessToken, refreshTokenValue)

\* C29: when the logout thunk has settled, fulfilled or rejected, the slice
\* reports an authenticated session, and '@auth' holds a pair, only if the
\* Token Store still holds tokens.
C29_LogoutLeavesAgreement ==
  [][\A t \in Tasks :
       (AppCollect(t) /\ task[t].kind = "logout")
         => ((auth'.isAuthenticated \/ stored' # NoPair)
               => accessToken' # Null)]_vars

\* ---- the realtime channel's connection state and its observer -----------

\* the life of the connection with a connection-state callback registered
NextConn ==
  \/ \E cb \in Cbs : RtOnConnectionChange(cb)
  \/ RtConnect
  \/ RtDisconnect
  \/ \E s \in Socks : EvConnect(s)
  \/ \E s \in Socks : EvDisconnect(s)
  \/ \E s \in Socks : EvError(s)
  \/ \E op \in {"verify", "refresh"} : RtStoreChange(op)

SpecConn == InitRT /\ [][NextConn]_vars

\* the channel is Connected
Connected(k, ss) == k # Null /\ ss[k].st = "connected"

\* the channel is Connecting
Connecting(k, ss) == k # Null /\ ss[k].st = "connecting"

\* C21: with a connection-state callback registered, every step that makes
\* the channel Connected calls it with true, and every step that takes the
\* channel out of Connected or out of Connecting without connecting calls it
\* with false; the callback called is the one registered last.
C21_EveryTransitionNotified ==
  [][connCb # NoCb =>
       /\ (~Connected(socket, socks) /\ Connected(socket', socks'))
            => connNote' = [cb |-> connCb, up |-> TRUE]
       /\ (Connected(socket, socks) /\ ~Connected(socket', socks'))
            => connNote' = [cb |-> connCb, up |-> FALSE]
       /\ (Connecting(socket, socks) /\ ~Connecting(socket', socks')
             /\ ~Connected(socket', socks'))
            => connNote' = [cb |-> connCb, up |-> FALSE]]_vars

\* C26: a message on a channel that has a subscription runs the channel's
\* callback exactly once.
C26_DeliveredExactlyOnce ==
  \A c \in Channels :
    (Arrived(c) /\ callbacks[c] # NoCb) => lastMsg.ran[callbacks[c]] = 1

\* sockets that are open: connecting, connected, or down and re-connecting
Live == {s \in Socks : socks[s].st \in {"connecting", "connected", "down"}}

\* C27: the service never has more than one open socket.
C27_OneLiveSocket == Cardinality(Live) <= 1

\* ---- the backend facade -------------------------------------------------

GetBackendServiceOpNoCache(inst, ks, cfg) ==
  IF cfg.backendType = "firebase" /\ cfg.firebase = "absent"
  THEN [instance |-> inst, kinds |-> ks, res |-> "threw"]
  ELSE [instance |-> Len(ks) + 1, kinds |-> Append(ks, cfg.backendType),
        res |-> "fresh"]

\* getBackendService(): the cached instance if there is one; otherwise a
\* FirebaseBackendService (it throws if config.firebase is undefined) or a
\* CustomBackendService is constructed and cached
GetBackendServiceOp(inst, ks, cfg) ==
  IF inst # Null
  THEN [instance |-> inst, kinds |-> ks, res |-> "cached"]
  ELSE IF cfg.backendType = "firebase" /\ cfg.firebase = "absent"
  THEN [instance |-> Null, kinds |-> ks, res |-> "threw"]
  ELSE [instance |-> Len(ks) + 1, kinds |-> Append(ks, cfg.backendType),
        res |-> "fresh"]

\* what the far end answers to GET /collection/id, after the interceptors
Outcomes == {"found", "404", "401", "500", "network"}

\* getById: CustomDatabaseService returns the data, null for a 404, and
\* rethrows anything else; FirestoreService throws 'not implemented'
GetByIdOp(kind, out) ==
  IF kind = "firebase" THEN "threw"
  ELSE CASE out = "found" -> "data"
         [] out = "404"   -> "null"
         [] OTHER         -> "threw"

\* application code calls getBackendService()
GetBackendService ==
  LET g == GetBackendServiceOp(backendServiceInstance, kinds, config) IN
  /\ Len(g.kinds) <= MaxInst
  /\ backendServiceInstance' = g.instance
  /\ kinds' = g.kinds
  /\ facOut' = [op |-> "get", inst |-> g.instance, res |-> g.res,
                arg |-> "none"]
  /\ UNCHANGED <<config, held, chatVars, sessVars, appVars, rtVars>>

\* a module service is created: its field `backend = getBackendService()`
\* keeps what the call returned; if the call throws, the module fails to load
LoadService(v) ==
  LET g == GetBackendServiceOp(backendServiceInstance, kinds, config) IN
  /\ held[v] = Null
  /\ Len(g.kinds) <= MaxInst
  /\ backendServiceInstance' = g.instance
  /\ kinds' = g.kinds
  /\ held' = IF g.res = "threw" THEN held ELSE [held EXCEPT ![v] = g.instance]
  /\ facOut' = [op |-> "load", inst |-> g.instance, res |-> g.res,
                arg |-> "none"]
  /\ UNCHANGED <<config, chatVars, sessVars, appVars, rtVars>>

\* resetBackendService()
ResetBackendService ==
  /\ backendServiceInstance' = Null
  /\ facOut' = [NoOut EXCEPT !.op = "reset"]
  /\ UNCHANGED <<config, kinds, held, chatVars, sessVars, appVars, rtVars>>

\* a module service performs a backend operation: this.backend.auth...,
\* this.backend.database..., this.backend.realtime...
ServiceCall(v) ==
  /\ held[v] # Null
  /\ facOut' = [op |-> "call", inst |-> held[v], res |-> "ok", arg |-> "none"]
  /\ UNCHANGED <<config, backendServiceInstance, kinds, held, chatVars,
                 sessVars, appVars, rtVars>>

\* the configuration object is given other values
Reconfigure(type, fb) ==
  /\ config # [backendType |-> type, firebase |-> fb]
  /\ config' = [backendType |-> type, firebase |-> fb]
  /\ facOut' = NoOut
  /\ UNCHANGED <<backendServiceInstance, kinds, held, chatVars, sessVars,
                 appVars, rtVars>>

\* getById on the database service of the live instance
DbGetById(out) ==
  /\ backendServiceInstance # Null
  /\ facOut' = [op |-> "getById", inst |-> backendServiceInstance,
                res |-> GetByIdOp(kinds[backendServiceInstance], out),
                arg |-> out]
  /\ UNCHANGED <<config, backendServiceInstance, kinds, held, chatVars,
                 sessVars, appVars, rtVars>>

InitFacade ==
  /\ SessInit /\ AppInit /\ RtInit /\ rtKind = "custom"
  /\ FacInit /\ ChatInit
  /\ \E type \in {"custom", "firebase"}, params \in {"unset", "set"} :
       config = ConfigFromEnv(type, params)

NextFacade ==
  \/ GetBackendService
  \/ \E v \in Services : LoadService(v)
  \/ ResetBackendService
  \/ \E v \in Services : ServiceCall(v)
  \/ \E type \in {"custom", "firebase"}, fb \in {"absent", "unset", "set"} :
       Reconfigure(type, fb)
  \/ \E out \in Outcomes : DbGetById(out)

SpecFacade == InitFacade /\ [][NextFacade]_vars

\* C22: a getBackendService() call that finds an instance returns that
\* instance and constructs nothing.
C22_SameInstanceBetweenResets ==
  [][((GetBackendService \/ \E v \in Services : LoadService(v))
        /\ backendServiceInstance # Null)
       => /\ facOut'.inst = backendServiceInstance
          /\ backendServiceInstance' = backendServiceInstance
          /\ kinds' = kinds]_vars

C22_Witness ==
  /\ facOut.op = "get" /\ facOut.res = "cached"
  /\ facOut.inst = backendServiceInstance
  /\ \E v \in Services : held[v] = backendServiceInstance

\* C23: once the facade holds an instance again after a reset, a backend
\* operation of a module service goes to that instance, not to the one the
\* reset discarded.
C23_CallsReachLiveInstance ==
  (facOut.op = "call" /\ backendServiceInstance # Null)
    => facOut.inst = backendServiceInstance

\* C24: with kind firebase and no usable firebase parameters,
\* getBackendService() throws and caches nothing.
C24_FailsFastWithoutParameters ==
  [][(GetBackendService /\ backendServiceInstance = Null
        /\ config.backendType = "firebase" /\ config.firebase # "set")
       => (facOut'.res = "threw" /\ backendServiceInstance' = Null)]_vars

\* C25: getById returns null when the backend reports not found, and
\* throws for every other failure, for both backend kinds.
C25_AbsentIsNull ==
  facOut.op = "getById" =>
    /\ facOut.arg = "404" => facOut.res = "null"
    /\ facOut.arg \notin {"404", "found"} => facOut.res = "threw"

\* ---- the chat slice: one conversation -----------------------------------

Range(q) == {q[i] : i \in 1..Len(q)}

\* q without its i-th element
Without(q, i) ==
  [j \in 1..(Len(q) - 1) |-> IF j < i THEN q[j] ELSE q[j + 1]]

\* somebody sends a message to the conversation: the server stores it and
\* pushes 'message.new' to this client
ServerMessage ==
  /\ Len(history) < MaxMsg
  /\ history' = Append(history, Len(history) + 1)
  /\ wire' = wire \cup {Len(history) + 1}
  /\ UNCHANGED <<messages, fetches, added, facVars, sessVars, appVars, rtVars>>

\* addMessage: the incoming message is pushed onto the conversation's list
AddMessage(m) ==
  /\ m \in wire
  /\ wire' = wire \ {m}
  /\ messages' = Append(messages, m)
  /\ added' = added \cup {m}
  /\ UNCHANGED <<history, fetches, facVars, sessVars, appVars, rtVars>>

\* the getMessages thunk was dispatched and the server answers the query
\* with the messages it has at that moment
GetMessagesServed ==
  /\ Len(fetches) < MaxFetch
  /\ fetches' = Append(fetches, history)
  /\ UNCHANGED <<messages, history, wire, added, facVars, sessVars, appVars,
                 rtVars>>

\* getMessages.fulfilled: the conversation's list is assigned the payload
GetMessagesFulfilled(i) ==
  /\ messages' = fetches[i]
  /\ fetches' = Without(fetches, i)
  /\ UNCHANGED <<history, wire, added, facVars, sessVars, appVars, rtVars>>

\* getMessages.rejected has no reducer case: the list stays as it is
GetMessagesRejected(i) ==
  /\ fetches' = Without(fetches, i)
  /\ UNCHANGED <<messages, history, wire, added, facVars, sessVars, appVars,
                 rtVars>>

NextChat ==
  \/ ServerMessage
  \/ \E m \in wire : AddMessage(m)
  \/ GetMessagesServed
  \/ \E i \in 1..Len(fetches) : GetMessagesFulfilled(i)
  \/ \E i \in 1..Len(fetches) : GetMessagesRejected(i)

SpecChat == Init /\ [][NextChat]_vars

\* C30: a message that addMessage has appended stays in the conversation's
\* list.
C30_AddedMessageKept == added \subseteq Range(messages)

====
